---- MODULE Spec2Model ----
(***************************************************************************)
(* The multi-provider fallback clients of omnivoice: stt.Client and        *)
(* tts.Client.  A client holds a registry of providers (by name), a        *)
(* primary name and an ordered list of fallback names; Transcribe,         *)
(* Synthesize, SynthesizeStream and TranscribeStream walk                  *)
(* [primary] ++ fallbacks.  The client takes no lock, so SetPrimary and    *)
(* SetFallbacks interleave with calls in flight.                           *)
(***************************************************************************)
EXTENDS Integers, Sequences, FiniteSets, TLC

\* ------------------------------------------------------------------ bounds
MaxProviders == 2      \* providers handed to NewClient
MaxFallbacks == 2      \* names handed to SetFallbacks

\* ------------------------------------------------- providers (test stubs)
\* Provider instances.  Instances 1 and 3 report the same name; instance 3
\* implements only the base stt.Provider, 1 and 2 also stt.StreamingProvider.
Instances == 1..3

Name(q) == CASE q = 1 -> "A" [] q = 2 -> "B" [] OTHER -> "A"

IsStreamingProvider(q) == q \in {1, 2}

\* Names a caller may pass to SetPrimary / SetFallbacks.  Whether "A" or "B"
\* resolves depends on what NewClient was given; "" never resolves.
NameUniverse == {"", "A", "B"}

\* Names a caller puts in a fallback list.
FallbackNames == {"A", "B"}

NameLen(n) == IF n = "" THEN 0 ELSE 1

\* Error values a provider may return.
ProviderErrs == {"ErrRateLimited", "ErrQuotaExceeded"}

ErrNoAvailableProvider == "ErrNoAvailableProvider"

ErrStreamingNotSupported == "ErrStreamingNotSupported"

\* Goroutines that call the client's operations.
Callers == {1}

RECURSIVE SeqsUpTo(_, _)
SeqsUpTo(S, n) ==
    IF n = 0 THEN {<<>>}
    ELSE LET shorter == SeqsUpTo(S, n - 1)
         IN  shorter \cup {Append(s, x) : s \in {t \in shorter : Len(t) = n - 1}, x \in S}

VARIABLES modality, providers, primary, fallbacks, call, racy, given, detail

vars == <<modality, providers, primary, fallbacks, call, racy, given, detail>>

\* ------------------------------------------------------------ construction
\* NewClient: c.providers[p.Name()] = p for each argument in order; the first
\* argument's name becomes primary, the others' names are appended to
\* fallbacks.
\* Mutation of RegistryOf: a name already in the map is not overwritten.
RegistryOf_FirstWins(args) ==
    [nm \in {Name(args[j]) : j \in 1..Len(args)} |->
        args[CHOOSE j \in 1..Len(args) :
                /\ Name(args[j]) = nm
                /\ \A i \in 1..(j - 1) : Name(args[i]) # nm]]

RECURSIVE RegistryOf(_)
RegistryOf(args) ==
    IF args = <<>> THEN <<>>
    ELSE LET n == Len(args)
             before == RegistryOf(SubSeq(args, 1, n - 1))
             q == args[n]
         IN  [nm \in (DOMAIN before) \cup {Name(q)} |->
                 IF nm = Name(q) THEN q ELSE before[nm]]

\* Mutation of NewClientPrimary: the test i == 0 is off, the last argument
\* becomes the primary.
NewClientPrimary_Last(args) == IF args = <<>> THEN "" ELSE Name(args[Len(args)])

NewClientPrimary(args) == IF args = <<>> THEN "" ELSE Name(args[1])

NewClientFallbacks(args) == [j \in 1..(Len(args) - 1) |-> Name(args[j + 1])]

NoResult == [by |-> 0, call |-> 0, k |-> 0]

IdleCall == [op |-> "none", pc |-> "idle", p |-> "", fbs |-> <<>>, i |-> 0,
             att |-> <<>>, res |-> NoResult, err |-> "nil",
             stream |-> "none", cancelled |-> FALSE, ranged |-> FALSE, whole |-> TRUE,
             found |-> FALSE, req |-> 0]

Constructed ==
    /\ modality \in {"stt", "tts"}
    /\ \E args \in SeqsUpTo(Instances, MaxProviders) :
          /\ providers = RegistryOf(args)
          /\ primary = NewClientPrimary(args)
          /\ fallbacks = NewClientFallbacks(args)
    /\ call = [c \in Callers |-> IdleCall]

\* racy tells whether the callers' goroutines run truly in parallel with the
\* setters', so that a read of a field can overlap a store to it (SpecRacy);
\* when it is FALSE the accesses to the fields only interleave (Spec).
\* given is a history of the construction, the argument list NewClient was
\* called with, for the statements about NewClient (SpecFixed); the
\* specifications in which SetPrimary and SetFallbacks overwrite what NewClient
\* set do not keep it.
NotKept == <<0>>

\* detail tells whether the provider stubs log all they are called with and
\* all they return (the request's payload, the error value) or, as the client
\* itself does, only whether a call succeeded.
Init == Constructed /\ racy = FALSE /\ given = NotKept /\ detail = FALSE

InitRacy == Constructed /\ racy = TRUE /\ given = NotKept /\ detail = FALSE

\* One goroutine configures the client, then calls it; the stubs log
\* everything.
InitSeq == Constructed /\ racy = FALSE /\ given = NotKept /\ detail = TRUE

\* Payloads (audio / text and config) of the requests the callers make.
Requests == IF detail THEN {1, 2} ELSE {1}

\* A client handed to two goroutines right after NewClient(args...).
Goroutines == {1, 2}

InitFixed ==
    /\ modality \in {"stt", "tts"}
    /\ \E args \in SeqsUpTo(Instances, MaxProviders) :
          /\ providers = RegistryOf(args)
          /\ primary = NewClientPrimary(args)
          /\ fallbacks = NewClientFallbacks(args)
          /\ given = args
    /\ call = [c \in Goroutines |-> IdleCall]
    /\ racy = FALSE
    /\ detail = FALSE

\* ----------------------------------------------------------------- setters
\* History kept for a call that has read c.primary and not yet c.fallbacks:
\* call[c].whole tells whether, at some instant since that read, the client's
\* primary equalled the value the call read while the client's fallbacks were
\* the list now stored.  Once the call has read c.fallbacks, whole tells
\* whether the pair it read was the client's pair at one instant of the call.
Observing(rec) == rec.pc = "range"

\* Mutation of SetPrimary: the new primary is taken out of the fallback list.
SetPrimary_Dedups(name) ==
    /\ primary' = name
    /\ fallbacks' = SelectSeq(fallbacks, LAMBDA n : n # name)
    /\ call' = [c \in Callers |->
                  IF Observing(call[c])
                  THEN [call[c] EXCEPT !.whole = @ \/ name = call[c].p]
                  ELSE call[c]]
    /\ UNCHANGED <<modality, providers, racy, given, detail>>

\* c.primary = name
SetPrimary(name) ==
    /\ primary' = name
    /\ call' = [c \in Callers |->
                  IF Observing(call[c])
                  THEN [call[c] EXCEPT !.whole = @ \/ name = call[c].p]
                  ELSE call[c]]
    /\ UNCHANGED <<modality, providers, fallbacks, racy, given, detail>>

\* c.fallbacks = names
SetFallbacks(names) ==
    /\ fallbacks' = names
    /\ call' = [c \in Callers |->
                  IF Observing(call[c])
                  THEN [call[c] EXCEPT !.whole = (primary = call[c].p)
                                                  \/ (names = fallbacks /\ @)]
                  ELSE call[c]]
    /\ UNCHANGED <<modality, providers, primary, racy, given, detail>>

\* ------------------------------------------- unsynchronised reads of a field
\* The client has no lock.  A read of c.primary (a two-word string header) or
\* of c.fallbacks (a three-word slice header) that runs at the same time as a
\* setter's store is a data race: the reader may see the old value, the new
\* value, or a header whose pointer comes from one and whose length from the
\* other.  A length that exceeds what the pointer addresses reads foreign
\* memory: any bytes, or a fault.

\* Strings a reader may see from pointer a and length of b.
MixedString(a, b) ==
    IF NameLen(b) = 0 THEN {""}
    ELSE IF NameLen(b) <= NameLen(a) THEN {a}
    ELSE {n \in NameUniverse : NameLen(n) = NameLen(b)}

TornString(old, new) == {old, new} \cup MixedString(old, new) \cup MixedString(new, old)

StringFault(old, new) == NameLen(old) # NameLen(new)

\* Slices a reader may see from pointer a and length of b.
MixedSlice(a, b) ==
    IF Len(b) <= Len(a) THEN {SubSeq(a, 1, Len(b))}
    ELSE {s \in SeqsUpTo(NameUniverse, Len(b)) :
             Len(s) = Len(b) /\ SubSeq(s, 1, Len(a)) = a}

TornSlice(old, new) == {old, new} \cup MixedSlice(old, new) \cup MixedSlice(new, old)

SliceFault(old, new) == Len(old) # Len(new)

\* What a call may see when it reads c.primary: the stored value, or, when a
\* SetPrimary(n) runs at the same time, any outcome of that race.
PrimaryReads ==
    {[seen |-> primary, fault |-> FALSE, race |-> FALSE, wrote |-> primary]} \cup
    (IF racy
     THEN UNION {
            {[seen |-> v, fault |-> FALSE, race |-> TRUE, wrote |-> n] :
                v \in TornString(primary, n)} \cup
            (IF StringFault(primary, n)
             THEN {[seen |-> "", fault |-> TRUE, race |-> TRUE, wrote |-> n]}
             ELSE {}) : n \in NameUniverse}
     ELSE {})

\* Mutation of AfterPrimaryRead: sticky failover, a call moves the client on to
\* its first fallback.
AfterPrimaryRead_Promotes(rd) ==
    /\ primary' = (IF fallbacks # <<>> THEN fallbacks[1] ELSE rd.wrote)
    /\ UNCHANGED <<modality, providers, fallbacks, racy, given, detail>>

AfterPrimaryRead(rd) ==
    /\ primary' = rd.wrote
    /\ UNCHANGED <<modality, providers, fallbacks, racy, given, detail>>

\* The same for the read of c.fallbacks at the head of the range loop.
FallbackReads ==
    {[seen |-> fallbacks, fault |-> FALSE, race |-> FALSE, wrote |-> fallbacks]} \cup
    (IF racy
     THEN UNION {
            {[seen |-> v, fault |-> FALSE, race |-> TRUE, wrote |-> n] :
                v \in TornSlice(fallbacks, n)} \cup
            (IF SliceFault(fallbacks, n)
             THEN {[seen |-> <<>>, fault |-> TRUE, race |-> TRUE, wrote |-> n]}
             ELSE {}) : n \in SeqsUpTo(FallbackNames, MaxFallbacks)}
     ELSE {})

AfterFallbackRead(rd) ==
    /\ fallbacks' = rd.wrote
    /\ UNCHANGED <<modality, providers, primary, racy, given, detail>>

\* ------------------------------------------------------------ one attempt
\* p, ok := c.providers[name]
Lookup(name) == name \in DOMAIN providers

\* What a provider call may return: success, or one of its errors.
Outcomes == {"ok"} \cup ProviderErrs

\* The value provider q returns from the k-th provider call made by call c.
Result(q, c, k) == [by |-> q, call |-> c, k |-> k]

Attempt(pos, name, q, out) == [pos |-> pos, name |-> name, inst |-> q, out |-> out]

\* Mutation of Invoked: p of the primary block shadows the loop's p, the call
\* goes to the primary's provider whenever that one is registered.
Invoked_Shadowed(rec, pos, name, out) ==
    LET nm == IF Lookup(rec.p) THEN rec.p ELSE name
    IN  [rec EXCEPT !.att = Append(@, Attempt(pos, nm, providers[nm],
                                              IF out = "ok" THEN "ok"
                                              ELSE IF detail THEN out ELSE "err"))]

\* The provider call itself.  att is the trace of the call's attempts (what a
\* call-counting stub would have seen); the client keeps nothing of a failed
\* attempt, so the trace tells only whether the attempt succeeded, unless the
\* stubs log the error values too.
Invoked(rec, pos, name, out) ==
    [rec EXCEPT !.att = Append(@, Attempt(pos, name, providers[name],
                                          IF out = "ok" THEN "ok"
                                          ELSE IF detail THEN out ELSE "err"))]

\* What the client keeps of the errors of a call's failed attempts: err is a
\* local that the next assignment overwrites, the client has no field or log
\* for it, and ErrNoAvailableProvider is a fixed value that wraps nothing.
Diagnostics(rec) == <<>>

\* Mutation of Success: the return on success is missing, the call goes on to
\* the fallbacks.
Success_NoReturn(c, rec) == [rec EXCEPT !.pc = "range"]

\* Mutation of Success: the value returned is the one the call's first
\* attempt produced, not the one of the attempt that succeeded.
Success_FirstResult(c, rec) ==
    [rec EXCEPT !.pc = "done", !.res = Result(rec.att[1].inst, c, 1), !.err = "nil"]

\* Mutation of Success: the result goes through a field of the client, where
\* another call in flight has meanwhile put its own.
Success_SharedResult(c, rec) ==
    LET k == Len(rec.att)
        others == {d \in DOMAIN call : d # c /\ call[d].pc \in {"range", "loop"}
                                            /\ call[d].att # <<>>}
    IN  IF others = {}
        THEN [rec EXCEPT !.pc = "done", !.res = Result(rec.att[k].inst, c, k), !.err = "nil"]
        ELSE LET d == CHOOSE x \in others : TRUE
                 n == Len(call[d].att)
             IN  [rec EXCEPT !.pc = "done", !.res = Result(call[d].att[n].inst, d, n),
                             !.err = "nil"]

\* if err == nil { return result, nil }: the value just returned by the
\* provider is handed to the caller unchanged.
Success(c, rec) ==
    LET k == Len(rec.att)
    IN  [rec EXCEPT !.pc = "done", !.res = Result(rec.att[k].inst, c, k), !.err = "nil"]

\* Mutation of Established: the return inside the if is missing, the walk
\* goes on after a stream was opened.
Established_NoReturn(c, rec) == [rec EXCEPT !.pc = "range", !.stream = "open"]

\* A stream operation that succeeded hands the provider's stream to the caller.
Established(c, rec) == [Success(c, rec) EXCEPT !.stream = "open"]

\* Mutation of Failed: the final return hands back no error.
Failed_NoError(rec, e) == [rec EXCEPT !.pc = "done", !.res = NoResult, !.err = "nil"]

\* return nil, <error>
Failed(rec, e) == [rec EXCEPT !.pc = "done", !.res = NoResult, !.err = e]

\* A read of foreign memory faulted: the goroutine panics, the call never returns.
Faulted(rec) == [rec EXCEPT !.pc = "fault"]

\* Mutation of ToFallbacks: a request with a certain option is pinned to the
\* primary and gets no fallback.
ToFallbacks_Pinned(rec) ==
    IF rec.req = 2 THEN [rec EXCEPT !.pc = "done", !.res = NoResult,
                                    !.err = ErrNoAvailableProvider]
    ELSE [rec EXCEPT !.pc = "range"]

\* The primary did not resolve, or its call failed: on to the range loop.
ToFallbacks(rec) == [rec EXCEPT !.pc = "range"]

\* for _, name := range c.fallbacks: the slice header is evaluated once, here.
Ranged(rec, rd, e) ==
    LET r == [rec EXCEPT !.fbs = rd.seen, !.ranged = TRUE,
                         !.whole = (rd.seen = fallbacks /\ rec.whole)
                                   \/ (rd.seen = rd.wrote /\ primary = rec.p)]
    IN  IF rd.fault THEN Faulted(rec)
        ELSE IF Len(r.fbs) = 0 THEN Failed(r, e)
        ELSE [r EXCEPT !.pc = "loop", !.i = 1]

\* Mutation of NextCandidate: a quota error is taken as final, the loop breaks.
NextCandidate_BreaksOnQuota(rec, e) ==
    IF rec.att # <<>> /\ rec.att[Len(rec.att)].out = "ErrQuotaExceeded" THEN Failed(rec, e)
    ELSE IF rec.i + 1 > Len(rec.fbs) THEN Failed(rec, e)
    ELSE [rec EXCEPT !.i = rec.i + 1]

\* Mutation of NextCandidate: the loop steps over one element too many.
NextCandidate_SkipsOne(rec, e) ==
    IF rec.i + 2 > Len(rec.fbs) THEN Failed(rec, e) ELSE [rec EXCEPT !.i = rec.i + 2]

\* End of one loop iteration: the next element, or the statement after the loop.
NextCandidate(rec, e) ==
    IF rec.i + 1 > Len(rec.fbs) THEN Failed(rec, e) ELSE [rec EXCEPT !.i = rec.i + 1]

\* Mutation of Skipped: the loop does not move past a name that does not
\* resolve.
Skipped_Spins(rec, e) == rec

\* Mutation of Skipped: a name that does not resolve ends the call.
Skipped_Stops(rec, e) == Failed(rec, e)

\* if p, ok := c.providers[name]; ok { ... } with ok false: the body is not
\* entered and the loop goes on.
Skipped(rec, e) == NextCandidate(rec, e)

\* Mutation of AsStreamingProvider: the capability check always passes.
AsStreamingProvider_Any(q) == TRUE

\* Mutation of AsStreamingProvider: the test on ok is negated.
AsStreamingProvider_Negated(q) == ~IsStreamingProvider(q)

\* sp, ok := p.(StreamingProvider)
AsStreamingProvider(q) == IsStreamingProvider(q)

\* A caller makes its calls one after the other, and reads a stream it was
\* given to its end before it calls again.
MayStart(c) == call[c].pc \in {"idle", "done"} /\ call[c].stream # "open"

Entered(op, rd) ==
    [IdleCall EXCEPT !.op = op, !.p = rd.seen,
                     !.whole = (rd.seen = primary \/ rd.seen = rd.wrote)]

cfg == <<modality, providers, primary, fallbacks, racy, given, detail>>

\* ------------------------------------------------------- stt.Client.Transcribe
TranscribePrimary(c) ==
    /\ modality = "stt"
    /\ MayStart(c)
    /\ \E rd \in PrimaryReads :
         /\ AfterPrimaryRead(rd)
         /\ \E rq \in Requests :
            LET rec == [Entered("Transcribe", rd) EXCEPT !.req = rq]
            IN  IF rd.fault THEN call' = [call EXCEPT ![c] = Faulted(rec)]
                ELSE IF Lookup(rec.p)
                THEN \E out \in Outcomes :
                       LET r == Invoked(rec, 0, rec.p, out)
                       IN  call' = [call EXCEPT ![c] =
                               IF out = "ok" THEN Success(c, r) ELSE ToFallbacks(r)]
                ELSE call' = [call EXCEPT ![c] = ToFallbacks(rec)]

TranscribeRange(c) ==
    /\ call[c].op = "Transcribe"
    /\ call[c].pc = "range"
    /\ \E rd \in FallbackReads :
         /\ AfterFallbackRead(rd)
         /\ call' = [call EXCEPT ![c] = Ranged(call[c], rd, ErrNoAvailableProvider)]

TranscribeFallback(c) ==
    /\ call[c].op = "Transcribe"
    /\ call[c].pc = "loop"
    /\ LET rec == call[c]
           name == rec.fbs[rec.i]
       IN  IF Lookup(name)
           THEN \E out \in Outcomes :
                  LET r == Invoked(rec, rec.i, name, out)
                  IN  call' = [call EXCEPT ![c] =
                          IF out = "ok" THEN Success(c, r)
                          ELSE NextCandidate(r, ErrNoAvailableProvider)]
           ELSE call' = [call EXCEPT ![c] = Skipped(rec, ErrNoAvailableProvider)]
    /\ UNCHANGED cfg

\* ------------------------------------------------------- tts.Client.Synthesize
SynthesizePrimary(c) ==
    /\ modality = "tts"
    /\ MayStart(c)
    /\ \E rd \in PrimaryReads :
         /\ AfterPrimaryRead(rd)
         /\ \E rq \in Requests :
            LET rec == [Entered("Synthesize", rd) EXCEPT !.req = rq]
            IN  IF rd.fault THEN call' = [call EXCEPT ![c] = Faulted(rec)]
                ELSE IF Lookup(rec.p)
                THEN \E out \in Outcomes :
                       LET r == Invoked(rec, 0, rec.p, out)
                       IN  call' = [call EXCEPT ![c] =
                               IF out = "ok" THEN Success(c, r) ELSE ToFallbacks(r)]
                ELSE call' = [call EXCEPT ![c] = ToFallbacks(rec)]

SynthesizeRange(c) ==
    /\ call[c].op = "Synthesize"
    /\ call[c].pc = "range"
    /\ \E rd \in FallbackReads :
         /\ AfterFallbackRead(rd)
         /\ call' = [call EXCEPT ![c] = Ranged(call[c], rd, ErrNoAvailableProvider)]

\* Mutation of SynthesizeFallback: the tts loop gives up at the first fallback
\* that fails, the stt loop does not.
SynthesizeFallback_StopsOnError(c) ==
    /\ call[c].op = "Synthesize"
    /\ call[c].pc = "loop"
    /\ LET rec == call[c]
           name == rec.fbs[rec.i]
       IN  IF Lookup(name)
           THEN \E out \in Outcomes :
                  LET r == Invoked(rec, rec.i, name, out)
                  IN  call' = [call EXCEPT ![c] =
                          IF out = "ok" THEN Success(c, r)
                          ELSE Failed(r, ErrNoAvailableProvider)]
           ELSE call' = [call EXCEPT ![c] = Skipped(rec, ErrNoAvailableProvider)]
    /\ UNCHANGED cfg

SynthesizeFallback(c) ==
    /\ call[c].op = "Synthesize"
    /\ call[c].pc = "loop"
    /\ LET rec == call[c]
           name == rec.fbs[rec.i]
       IN  IF Lookup(name)
           THEN \E out \in Outcomes :
                  LET r == Invoked(rec, rec.i, name, out)
                  IN  call' = [call EXCEPT ![c] =
                          IF out = "ok" THEN Success(c, r)
                          ELSE NextCandidate(r, ErrNoAvailableProvider)]
           ELSE call' = [call EXCEPT ![c] = Skipped(rec, ErrNoAvailableProvider)]
    /\ UNCHANGED cfg

\* ------------------------------------------------- tts.Client.SynthesizeStream
SynthesizeStreamPrimary(c) ==
    /\ modality = "tts"
    /\ MayStart(c)
    /\ \E rd \in PrimaryReads :
         /\ AfterPrimaryRead(rd)
         /\ \E rq \in Requests :
            LET rec == [Entered("SynthesizeStream", rd) EXCEPT !.req = rq]
            IN  IF rd.fault THEN call' = [call EXCEPT ![c] = Faulted(rec)]
                ELSE IF Lookup(rec.p)
                THEN \E out \in Outcomes :
                       LET r == Invoked(rec, 0, rec.p, out)
                       IN  call' = [call EXCEPT ![c] =
                               IF out = "ok" THEN Established(c, r) ELSE ToFallbacks(r)]
                ELSE call' = [call EXCEPT ![c] = ToFallbacks(rec)]

SynthesizeStreamRange(c) ==
    /\ call[c].op = "SynthesizeStream"
    /\ call[c].pc = "range"
    /\ \E rd \in FallbackReads :
         /\ AfterFallbackRead(rd)
         /\ call' = [call EXCEPT ![c] = Ranged(call[c], rd, ErrNoAvailableProvider)]

SynthesizeStreamFallback(c) ==
    /\ call[c].op = "SynthesizeStream"
    /\ call[c].pc = "loop"
    /\ LET rec == call[c]
           name == rec.fbs[rec.i]
       IN  IF Lookup(name)
           THEN \E out \in Outcomes :
                  LET r == Invoked(rec, rec.i, name, out)
                  IN  call' = [call EXCEPT ![c] =
                          IF out = "ok" THEN Established(c, r)
                          ELSE NextCandidate(r, ErrNoAvailableProvider)]
           ELSE call' = [call EXCEPT ![c] = Skipped(rec, ErrNoAvailableProvider)]
    /\ UNCHANGED cfg

\* ------------------------------------------------- stt.Client.TranscribeStream
\* Mutation of Verbatim: the provider's error is replaced by the client's own.
Verbatim_Masked(c, rec, out) ==
    IF out = "ok" THEN Established(c, rec) ELSE Failed(rec, ErrStreamingNotSupported)

\* return sp.TranscribeStream(ctx, config): whatever the provider returns,
\* error included, is what the caller gets.
Verbatim(c, rec, out) ==
    IF out = "ok" THEN Established(c, rec) ELSE Failed(rec, out)

TranscribeStreamPrimary(c) ==
    /\ modality = "stt"
    /\ MayStart(c)
    /\ \E rd \in PrimaryReads :
         /\ AfterPrimaryRead(rd)
         /\ \E rq \in Requests :
            LET rec == [Entered("TranscribeStream", rd) EXCEPT !.req = rq]
            IN  IF rd.fault THEN call' = [call EXCEPT ![c] = Faulted(rec)]
                ELSE IF Lookup(rec.p) /\ AsStreamingProvider(providers[rec.p])
                THEN \E out \in Outcomes :
                       call' = [call EXCEPT ![c] =
                                   Verbatim(c, Invoked(rec, 0, rec.p, out), out)]
                ELSE call' = [call EXCEPT ![c] = ToFallbacks(rec)]

TranscribeStreamRange(c) ==
    /\ call[c].op = "TranscribeStream"
    /\ call[c].pc = "range"
    /\ \E rd \in FallbackReads :
         /\ AfterFallbackRead(rd)
         /\ call' = [call EXCEPT ![c] = Ranged(call[c], rd, ErrStreamingNotSupported)]

TranscribeStreamFallback(c) ==
    /\ call[c].op = "TranscribeStream"
    /\ call[c].pc = "loop"
    /\ LET rec == call[c]
           name == rec.fbs[rec.i]
       IN  IF Lookup(name) /\ AsStreamingProvider(providers[name])
           THEN \E out \in Outcomes :
                  call' = [call EXCEPT ![c] = Verbatim(c, Invoked(rec, rec.i, name, out), out)]
           ELSE call' = [call EXCEPT ![c] = Skipped(rec, ErrStreamingNotSupported)]
    /\ UNCHANGED cfg

\* --------------------------------------------------------- Client.Provider
\* Mutation of Provider: a name that is not registered yields the primary's
\* provider.
Provider_DefaultsToPrimary(name) ==
    IF Lookup(name) THEN [by |-> providers[name], found |-> TRUE]
    ELSE IF Lookup(primary) THEN [by |-> providers[primary], found |-> TRUE]
    ELSE [by |-> 0, found |-> FALSE]

\* p, ok := c.providers[name]; return p, ok
Provider(name) ==
    IF Lookup(name) THEN [by |-> providers[name], found |-> TRUE]
    ELSE [by |-> 0, found |-> FALSE]

\* A caller asks for a provider by name; what it gets is kept in its frame.
ProviderCall(c) ==
    /\ MayStart(c)
    /\ \E name \in NameUniverse :
          LET got == Provider(name)
          IN  call' = [call EXCEPT ![c] =
                  [IdleCall EXCEPT !.op = "Provider", !.pc = "done", !.p = name,
                                   !.found = got.found,
                                   !.res = IF got.found THEN Result(got.by, c, 0)
                                           ELSE NoResult]]
    /\ UNCHANGED cfg

\* ------------------------------------------------------------- environment
\* The caller cancels the context it passed (or its deadline passes) while
\* the call is between two candidates.
Cancel(c) ==
    /\ call[c].pc \in {"range", "loop"}
    /\ ~call[c].cancelled
    /\ call' = [call EXCEPT ![c] = [call[c] EXCEPT !.cancelled = TRUE]]
    /\ UNCHANGED cfg

\* Mutation of StreamFail: when the stream fails the client calls the provider
\* of the next fallback position.
StreamFail_Retry(c) ==
    /\ call[c].stream = "open"
    /\ LET rec == call[c]
           pos == rec.att[Len(rec.att)].pos + 1
       IN  /\ pos <= Len(fallbacks)
           /\ Lookup(fallbacks[pos])
           /\ call' = [call EXCEPT ![c] = Invoked(rec, pos, fallbacks[pos], "ok")]
    /\ UNCHANGED cfg

\* The provider's stream, already in the caller's hands, reports an error
\* (StreamEvent.Error / StreamChunk.Error) and ends.
StreamFail(c) ==
    /\ call[c].stream = "open"
    /\ call' = [call EXCEPT ![c] = [call[c] EXCEPT !.stream = "failed"]]
    /\ UNCHANGED cfg

\* The provider's stream ends normally.
StreamEnd(c) ==
    /\ call[c].stream = "open"
    /\ call' = [call EXCEPT ![c] = [call[c] EXCEPT !.stream = "closed"]]
    /\ UNCHANGED cfg

Next ==
    \/ \E name \in NameUniverse : SetPrimary(name)
    \/ \E names \in SeqsUpTo(FallbackNames, MaxFallbacks) : SetFallbacks(names)
    \/ \E c \in Callers : TranscribePrimary(c)
    \/ \E c \in Callers : TranscribeRange(c)
    \/ \E c \in Callers : TranscribeFallback(c)
    \/ \E c \in Callers : SynthesizePrimary(c)
    \/ \E c \in Callers : SynthesizeRange(c)
    \/ \E c \in Callers : SynthesizeFallback(c)
    \/ \E c \in Callers : SynthesizeStreamPrimary(c)
    \/ \E c \in Callers : SynthesizeStreamRange(c)
    \/ \E c \in Callers : SynthesizeStreamFallback(c)
    \/ \E c \in Callers : TranscribeStreamPrimary(c)
    \/ \E c \in Callers : TranscribeStreamRange(c)
    \/ \E c \in Callers : TranscribeStreamFallback(c)
    \/ \E c \in Callers : ProviderCall(c)
    \/ \E c \in Callers : Cancel(c)
    \/ \E c \in Callers : StreamFail(c)
    \/ \E c \in Callers : StreamEnd(c)

Spec == Init /\ [][Next]_vars

\* The client as constructed, its ordering never changed, used by two
\* goroutines at once.
NextFixed ==
    \/ \E c \in Goroutines : TranscribePrimary(c)
    \/ \E c \in Goroutines : TranscribeRange(c)
    \/ \E c \in Goroutines : TranscribeFallback(c)
    \/ \E c \in Goroutines : SynthesizePrimary(c)
    \/ \E c \in Goroutines : SynthesizeRange(c)
    \/ \E c \in Goroutines : SynthesizeFallback(c)
    \/ \E c \in Goroutines : SynthesizeStreamPrimary(c)
    \/ \E c \in Goroutines : SynthesizeStreamRange(c)
    \/ \E c \in Goroutines : SynthesizeStreamFallback(c)
    \/ \E c \in Goroutines : TranscribeStreamPrimary(c)
    \/ \E c \in Goroutines : TranscribeStreamRange(c)
    \/ \E c \in Goroutines : TranscribeStreamFallback(c)
    \/ \E c \in Goroutines : StreamFail(c)
    \/ \E c \in Goroutines : StreamEnd(c)

SpecFixed == InitFixed /\ [][NextFixed]_vars

\* No call has been made yet.
Quiet == \A c \in Callers : call[c].pc = "idle"

\* The client used from one goroutine: it is configured first, then called.
NextSeq ==
    \/ \E name \in NameUniverse : Quiet /\ SetPrimary(name)
    \/ \E names \in SeqsUpTo(FallbackNames, MaxFallbacks) : Quiet /\ SetFallbacks(names)
    \/ \E c \in Callers : TranscribePrimary(c)
    \/ \E c \in Callers : TranscribeRange(c)
    \/ \E c \in Callers : TranscribeFallback(c)
    \/ \E c \in Callers : SynthesizePrimary(c)
    \/ \E c \in Callers : SynthesizeRange(c)
    \/ \E c \in Callers : SynthesizeFallback(c)
    \/ \E c \in Callers : SynthesizeStreamPrimary(c)
    \/ \E c \in Callers : SynthesizeStreamRange(c)
    \/ \E c \in Callers : SynthesizeStreamFallback(c)
    \/ \E c \in Callers : TranscribeStreamPrimary(c)
    \/ \E c \in Callers : TranscribeStreamRange(c)
    \/ \E c \in Callers : TranscribeStreamFallback(c)
    \/ \E c \in Callers : ProviderCall(c)
    \/ \E c \in Callers : StreamFail(c)
    \/ \E c \in Callers : StreamEnd(c)

SpecSeq == InitSeq /\ [][NextSeq]_vars

\* The next statement of a call in flight: the head of the range loop, or one
\* iteration of it.
Proceeds(c) ==
    \/ TranscribeRange(c)
    \/ TranscribeFallback(c)
    \/ SynthesizeRange(c)
    \/ SynthesizeFallback(c)
    \/ SynthesizeStreamRange(c)
    \/ SynthesizeStreamFallback(c)
    \/ TranscribeStreamRange(c)
    \/ TranscribeStreamFallback(c)

\* The same client, every provider call returning and the goroutine of a call
\* in flight being scheduled: the call's next statement is eventually run.
\* Whether a caller calls again is up to the caller.
SpecLive == InitSeq /\ [][NextSeq]_vars /\ \A c \in Callers : WF_vars(Proceeds(c))

SpecRacy == InitRacy /\ [][Next]_vars

\* ===================================================================== claims
BatchOps == {"Transcribe", "Synthesize"}

StreamOps == {"TranscribeStream", "SynthesizeStream"}

\* The candidate order a call has read: position 0 is the primary, position
\* j >= 1 is element j of the fallback list.
Cands(rec) == <<rec.p>> \o rec.fbs

CandName(rec, j) == Cands(rec)[j + 1]

Positions(rec) == 0..Len(rec.fbs)

AttemptsAt(rec, j) == {k \in 1..Len(rec.att) : rec.att[k].pos = j}

AttemptsOf(rec, nm) == {k \in 1..Len(rec.att) : rec.att[k].name = nm}

LastAttempt(rec) == rec.att[Len(rec.att)]

\* C1: in a batch call (Transcribe, Synthesize) whose primary resolves and
\* whose call to the primary succeeds, the call has returned that provider's
\* result with no error and has invoked nothing else.
C1_PrimarySuccess ==
    \A c \in Callers :
        LET rec == call[c]
        IN  (/\ rec.op \in BatchOps
             /\ Len(rec.att) >= 1
             /\ rec.att[1].pos = 0
             /\ rec.att[1].out = "ok")
            => /\ rec.pc = "done"
               /\ rec.err = "nil"
               /\ rec.att[1].inst = providers[rec.p]
               /\ rec.res = Result(providers[rec.p], c, 1)
               /\ Len(rec.att) = 1
               /\ ~rec.ranged

\* C1 witness: the primary succeeded while a different registered provider
\* was waiting in the fallback list.
C1_Witness ==
    \E c \in Callers :
        /\ call[c].op \in BatchOps
        /\ call[c].pc = "done"
        /\ Len(call[c].att) = 1
        /\ call[c].att[1].out = "ok"
        /\ \E j \in 1..Len(fallbacks) : Lookup(fallbacks[j]) /\ fallbacks[j] # call[c].p

\* The case of C2: a finished batch call whose primary attempt failed and
\* whose last attempt, at a fallback position, succeeded.
FallbackSucceeded(rec) ==
    /\ rec.op \in BatchOps
    /\ rec.pc = "done"
    /\ Len(rec.att) >= 2
    /\ rec.att[1].pos = 0
    /\ rec.att[1].out # "ok"
    /\ LastAttempt(rec).out = "ok"

\* C2 as stated: when the primary fails and a fallback succeeds, the call
\* returns the fallback's result and the primary provider has been invoked
\* exactly once, before every fallback.
C2_PrimaryOnce ==
    \A c \in Callers :
        LET rec == call[c]
        IN  FallbackSucceeded(rec)
            => /\ rec.err = "nil"
               /\ rec.res = Result(LastAttempt(rec).inst, c, Len(rec.att))
               /\ Cardinality(AttemptsOf(rec, rec.p)) = 1

\* C2 amended: when the primary fails and a fallback succeeds, the call
\* returns that fallback's result; the primary position is attempted exactly
\* once, before every fallback position, and the primary provider is invoked
\* once more for each fallback entry tried that carries its name.
C2_PrimaryPositionOnce ==
    \A c \in Callers :
        LET rec == call[c]
            last == LastAttempt(rec).pos
        IN  FallbackSucceeded(rec)
            => /\ rec.err = "nil"
               /\ rec.res = Result(LastAttempt(rec).inst, c, Len(rec.att))
               /\ AttemptsAt(rec, 0) = {1}
               /\ last >= 1
               /\ \A k \in 2..Len(rec.att) : rec.att[k].pos >= 1
               /\ Cardinality(AttemptsOf(rec, rec.p))
                    = 1 + Cardinality({j \in 1..last : rec.fbs[j] = rec.p})

\* C2 witness: the primary failed, a fallback with another name succeeded.
C2_Witness ==
    \E c \in Callers :
        /\ FallbackSucceeded(call[c])
        /\ LastAttempt(call[c]).name # call[c].p

\* C2 witness of the amendment's case: the fallback that succeeded carries
\* the primary's own name.
C2_WitnessSameName ==
    \E c \in Callers :
        /\ FallbackSucceeded(call[c])
        /\ LastAttempt(call[c]).name = call[c].p

\* The case of C3: a batch call that ended in ErrNoAvailableProvider.
AllFailed(rec) ==
    /\ rec.op \in BatchOps
    /\ rec.pc = "done"
    /\ rec.err = ErrNoAvailableProvider

\* The resolvable positions of the order the call read, in increasing order.
RECURSIVE ResolvableFrom(_, _)
ResolvableFrom(rec, j) ==
    IF j > Len(rec.fbs) THEN <<>>
    ELSE (IF Lookup(CandName(rec, j)) THEN <<j>> ELSE <<>>) \o ResolvableFrom(rec, j + 1)

AttemptedPositions(rec) == [k \in 1..Len(rec.att) |-> rec.att[k].pos]

\* C3 as stated: when every candidate fails, the call fails with
\* ErrNoAvailableProvider and every registered provider named in the order
\* has been invoked exactly once, in the declared order.
C3_EachProviderOnce ==
    \A c \in Callers :
        LET rec == call[c]
        IN  AllFailed(rec)
            => /\ rec.res = NoResult
               /\ \A j \in Positions(rec) :
                     Lookup(CandName(rec, j))
                        => Cardinality(AttemptsOf(rec, CandName(rec, j))) = 1

\* C3 amended: when every candidate fails, the call fails with
\* ErrNoAvailableProvider and every resolvable position of
\* [primary] ++ fallbacks has been attempted exactly once, in the declared
\* order, each attempt going to the provider registered under that
\* position's name (a provider named at several positions is invoked once per
\* position).
C3_EachPositionOnce ==
    \A c \in Callers :
        LET rec == call[c]
        IN  AllFailed(rec)
            => /\ rec.res = NoResult
               /\ AttemptedPositions(rec) = ResolvableFrom(rec, 0)
               /\ \A k \in 1..Len(rec.att) :
                     /\ rec.att[k].name = CandName(rec, rec.att[k].pos)
                     /\ rec.att[k].inst = providers[rec.att[k].name]
                     /\ rec.att[k].out # "ok"

\* C3 witness: three positions, all resolvable, all failed.
C3_Witness ==
    \E c \in Callers :
        /\ AllFailed(call[c])
        /\ Len(call[c].att) = 3
        /\ \E j \in 1..2 : call[c].fbs[j] # call[c].p
\* C4 as stated: the (primary, fallbacks) pair a call has used was the
\* client's pair at one instant of the call, never the primary of one
\* generation with the fallback list of another.  (whole is FALSE only if the
\* list the call read was stored while the client's primary differed from the
\* one the call had read, and the two never met afterwards.)
C4_NoTornOrdering ==
    \A c \in Callers : call[c].ranged => call[c].whole

\* C5 as stated: once the caller's context is cancelled, the call in flight
\* invokes no further candidate, and when it returns it returns the
\* context's error.
C5_AbortOnCancel ==
    [][\A c \in Callers :
          (call[c].cancelled /\ call[c].pc \in {"range", "loop"})
             => /\ call'[c].att = call[c].att
                /\ (call'[c].pc = "done" => call'[c].err = "context.Canceled")]_vars

\* Whether the provider registered under nm can serve operation op.
Capable(op, nm) ==
    /\ Lookup(nm)
    /\ (op = "TranscribeStream" => IsStreamingProvider(providers[nm]))

C7_StreamFallback ==
    [][\A c \in Callers :
          LET old == call[c]
              new == call'[c]
              rest == IF new.ranged THEN new.fbs ELSE fallbacks
          IN  (/\ new.op \in StreamOps
               /\ new.att # old.att
               /\ new.att # <<>>
               /\ LastAttempt(new).out = "err"
               /\ new.pc = "done")
              => \A j \in 1..Len(rest) :
                    j > LastAttempt(new).pos => ~Capable(new.op, rest[j])]_vars

ClientErrors == {ErrNoAvailableProvider, ErrStreamingNotSupported, "context.Canceled"}

\* C8 as stated: a call that has returned gave the caller either a result and
\* no error, or no result and one of the client's own errors.
C8_NoProviderError ==
    \A c \in Callers :
        (call[c].pc = "done" /\ call[c].op \in BatchOps \cup StreamOps)
           => \/ call[c].err = "nil" /\ call[c].res # NoResult
              \/ call[c].res = NoResult /\ call[c].err \in ClientErrors

\* C9: in a finished batch call, a position of [primary] ++ fallbacks whose
\* name does not resolve was not attempted, produced no error of its own, and
\* did not stop the iteration: either a resolvable position succeeded and its
\* result was returned, or every resolvable position after it was attempted.
C9_UnresolvedSkipped ==
    \A c \in Callers :
        LET rec == call[c]
        IN  (rec.op \in BatchOps /\ rec.pc = "done")
            => \A j \in (IF rec.ranged THEN Positions(rec) ELSE {0}) :
                  ~Lookup(CandName(rec, j))
                     => /\ AttemptsAt(rec, j) = {}
                        /\ rec.err \in {"nil", ErrNoAvailableProvider}
                        /\ rec.err = "nil"
                             => /\ LastAttempt(rec).out = "ok"
                                /\ rec.res = Result(LastAttempt(rec).inst, c, Len(rec.att))
                        /\ rec.err = ErrNoAvailableProvider
                             => \A k \in Positions(rec) :
                                   (k > j /\ Lookup(CandName(rec, k)))
                                      => AttemptsAt(rec, k) # {}

\* C9 witness: fallbacks [ghost, real], the result returned is real's.
C9_Witness ==
    \E c \in Callers :
        /\ call[c].op \in BatchOps
        /\ call[c].pc = "done"
        /\ call[c].err = "nil"
        /\ Len(call[c].fbs) = 2
        /\ ~Lookup(call[c].fbs[1])
        /\ LastAttempt(call[c]).pos = 2

\* What a call looks like after its first step: the fallbacks not yet read,
\* no attempt but the one on the primary.
FirstStep(rec) ==
    /\ ~rec.ranged
    /\ \A k \in 1..Len(rec.att) : rec.att[k].pos = 0

\* C10: while a stream handed to the caller is open, and when it fails, the
\* call that produced it makes no further attempt and its result does not
\* change; a failed stream stays failed.
C10_NoMidStreamFallback ==
    [][\A c \in Callers :
          /\ call[c].stream = "open"
                => /\ call'[c].att = call[c].att
                   /\ call'[c].res = call[c].res
                   /\ call'[c].pc = "done"
                   /\ call'[c].stream \in {"open", "failed", "closed"}
          /\ call[c].stream = "failed"
                => call'[c] = call[c] \/ FirstStep(call'[c])]_vars

\* C10 witness: the stream failed while a registered provider that was not
\* attempted stood later in the order.
C10_Witness ==
    \E c \in Callers :
        /\ call[c].stream = "failed"
        /\ \E j \in 1..Len(fallbacks) :
              /\ j > LastAttempt(call[c]).pos
              /\ Capable(call[c].op, fallbacks[j])
              /\ fallbacks[j] # LastAttempt(call[c]).name
\* Operations that go on to the next candidate when an attempt fails.
RetryOps == {"Transcribe", "Synthesize", "SynthesizeStream"}

\* A step of caller c's call (the history field whole apart, which the
\* setters keep).
Executes(c) == [call'[c] EXCEPT !.whole = TRUE] # [call[c] EXCEPT !.whole = TRUE]

\* The step is the first one of a new call of caller c.
Begins(c) ==
    /\ call[c].pc \in {"idle", "done"}
    /\ call'[c] # [call[c] EXCEPT !.stream = call'[c].stream]

\* C11: no step of Transcribe, TranscribeStream, Synthesize or
\* SynthesizeStream changes primary, fallbacks or the registry, whatever its
\* outcome; and a call that begins while the primary resolves attempts the
\* primary's provider first, at position 0, whether or not that provider
\* failed in the caller's previous call.
C11_NoFailureMemory ==
    [][\A c \in Callers :
          Executes(c)
             => /\ primary' = primary
                /\ fallbacks' = fallbacks
                /\ providers' = providers
                /\ (Begins(c) /\ call'[c].op \in RetryOps /\ Lookup(primary))
                   => /\ call'[c].att # <<>>
                      /\ call'[c].att[1].pos = 0
                      /\ call'[c].att[1].name = primary
                      /\ call'[c].att[1].inst = providers[primary]]_vars

\* C11 witness: a call has returned a fallback's result after the primary's
\* provider failed, and the client still has that provider as its primary,
\* registered, with the fallback list the call used.
C11_Witness ==
    \E c \in Callers :
        /\ call[c].op \in RetryOps
        /\ call[c].pc = "done"
        /\ call[c].err = "nil"
        /\ Len(call[c].att) = 2
        /\ call[c].att[1].pos = 0
        /\ call[c].att[1].out = "err"
        /\ call[c].att[2].name # call[c].att[1].name
        /\ primary = call[c].att[1].name
        /\ fallbacks = call[c].fbs
        /\ providers[primary] = call[c].att[1].inst
\* C12: TranscribeStream dispatches only to providers that implement
\* StreamingProvider; the one attempt it makes is at the first position of
\* its ordering whose provider is registered and implements it, every
\* candidate before that one having been stepped over, and a call that
\* returns having read an ordering with such a position has made that attempt.
C12_BaseNeverStreamed ==
    \A c \in Callers :
        LET rec == call[c]
        IN  rec.op = "TranscribeStream"
            => /\ \A k \in 1..Len(rec.att) :
                    /\ IsStreamingProvider(rec.att[k].inst)
                    /\ rec.att[k].name = CandName(rec, rec.att[k].pos)
                    /\ \A j \in 0..(rec.att[k].pos - 1) :
                          ~Capable(rec.op, CandName(rec, j))
               /\ Len(rec.att) <= 1
               /\ (/\ rec.pc = "done"
                   /\ rec.ranged
                   /\ \E j \in Positions(rec) : Capable(rec.op, CandName(rec, j)))
                  => rec.att # <<>>

\* C12 witness: the primary is registered and implements only the base
\* contract; the stream was opened by a fallback.
C12_Witness ==
    \E c \in Callers :
        /\ call[c].op = "TranscribeStream"
        /\ call[c].pc = "done"
        /\ call[c].stream = "open"
        /\ Lookup(call[c].p)
        /\ ~IsStreamingProvider(providers[call[c].p])
        /\ call[c].att[1].pos >= 1
\* The names of the arguments NewClient was given, in argument order.
GivenNames == [j \in 1..Len(given) |-> Name(given[j])]

C14_PrimaryRegistered == primary = "" \/ Lookup(primary)
\* C15: a Transcribe, Synthesize or SynthesizeStream call that has read an
\* ordering none of whose names resolves in the registry invokes no provider
\* and returns no result and ErrNoAvailableProvider.
C15_EmptyOrder ==
    \A c \in Callers :
        LET rec == call[c]
        IN  (/\ rec.op \in RetryOps
             /\ rec.ranged
             /\ \A j \in Positions(rec) : ~Lookup(CandName(rec, j)))
            => /\ rec.att = <<>>
               /\ rec.stream = "none"
               /\ rec.pc = "done"
                    => rec.err = ErrNoAvailableProvider /\ rec.res = NoResult

\* C15 witness: the registry is not empty and the ordering has fallbacks, yet
\* no name of it resolves; the call returned ErrNoAvailableProvider.
C15_Witness ==
    \E c \in Callers :
        /\ call[c].op \in RetryOps
        /\ call[c].pc = "done"
        /\ call[c].err = ErrNoAvailableProvider
        /\ call[c].att = <<>>
        /\ call[c].fbs # <<>>
        /\ DOMAIN providers # {}
\* C16 as stated: a TranscribeStream call whose ordering has registered
\* providers, none of which implements StreamingProvider, is served through a
\* provider's batch Transcribe: it invokes a provider and does not fail with
\* ErrStreamingNotSupported.
C16_BatchFallback ==
    \A c \in Callers :
        LET rec == call[c]
        IN  (/\ rec.op = "TranscribeStream"
             /\ rec.pc = "done"
             /\ rec.ranged
             /\ \E j \in Positions(rec) : Lookup(CandName(rec, j))
             /\ \A j \in Positions(rec) : ~Capable(rec.op, CandName(rec, j)))
            => rec.att # <<>> /\ rec.err # ErrStreamingNotSupported
\* C17: SynthesizeStream attempts the primary and then the fallbacks in list
\* order, each registered position once and no other; an attempt that
\* succeeds is the last one, and the call returns that provider's stream and
\* no error; when every attempt has failed the call returns no stream and
\* ErrNoAvailableProvider, every registered position having been attempted.
C17_SynthesizeStreamFallback ==
    \A c \in Callers :
        LET rec == call[c]
            n == Len(rec.att)
        IN  rec.op = "SynthesizeStream"
            => /\ \A k \in 1..n :
                    /\ rec.att[k].pos \in Positions(rec)
                    /\ rec.att[k].name = CandName(rec, rec.att[k].pos)
                    /\ rec.att[k].inst = providers[rec.att[k].name]
                    /\ k < n => rec.att[k].out = "err" /\ rec.att[k].pos < rec.att[k + 1].pos
                    /\ \A j \in 0..(rec.att[k].pos - 1) :
                          Lookup(CandName(rec, j)) => AttemptsAt(rec, j) # {}
               /\ (n > 0 /\ rec.att[n].out = "ok")
                    => /\ rec.pc = "done"
                       /\ rec.err = "nil"
                       /\ rec.stream # "none"
                       /\ rec.res = Result(rec.att[n].inst, c, n)
               /\ (rec.pc = "done" /\ (n = 0 \/ rec.att[n].out = "err"))
                    => /\ rec.err = ErrNoAvailableProvider
                       /\ rec.res = NoResult
                       /\ rec.stream = "none"
                       /\ rec.ranged
                       /\ \A j \in Positions(rec) :
                             Lookup(CandName(rec, j)) => AttemptsAt(rec, j) # {}

\* C17 witness: the primary's call failed, the first fallback opened the
\* stream, and the second fallback, registered, was not invoked.
C17_Witness ==
    \E c \in Callers :
        /\ call[c].op = "SynthesizeStream"
        /\ call[c].pc = "done"
        /\ call[c].stream = "open"
        /\ Len(call[c].att) = 2
        /\ call[c].att[2].pos = 1
        /\ Len(call[c].fbs) = 2
        /\ Lookup(call[c].fbs[2])

\* C17 witness, the other outcome: every candidate failed.
C17_WitnessAllFailed ==
    \E c \in Callers :
        /\ call[c].op = "SynthesizeStream"
        /\ call[c].pc = "done"
        /\ call[c].err = ErrNoAvailableProvider
        /\ Len(call[c].att) = 3
\* The last argument of NewClient that reports name nm.
LastGiven(nm) ==
    given[CHOOSE j \in 1..Len(given) :
             /\ GivenNames[j] = nm
             /\ \A i \in (j + 1)..Len(given) : GivenNames[i] # nm]

\* C18: the registry holds exactly the names of NewClient's arguments, each
\* mapped to the last argument that reports it, and every attempt made under
\* a name is made on that argument, never on an earlier one of the same name.
C18_LastWriteWins ==
    /\ DOMAIN providers = {GivenNames[j] : j \in 1..Len(given)}
    /\ \A nm \in DOMAIN providers : providers[nm] = LastGiven(nm)
    /\ \A c \in Goroutines :
          \A k \in 1..Len(call[c].att) :
             call[c].att[k].inst = LastGiven(call[c].att[k].name)

\* C18 witness: NewClient was given two different providers of one name, and
\* a call has made an attempt under that name.
C18_Witness ==
    \E c \in Goroutines :
        /\ Len(given) = 2
        /\ given[1] # given[2]
        /\ GivenNames[1] = GivenNames[2]
        /\ call[c].att # <<>>
        /\ call[c].att[1].inst = given[2]
\* C19: a Provider(name) call leaves primary, fallbacks and the registry as
\* they are and invokes no provider; it finds name exactly when name is in
\* the registry, whatever primary and fallbacks are, and then returns the
\* provider registered under it; and no step of any operation changes the
\* registry, so the names it resolves are those registered at construction.
C19_PureLookup ==
    [][/\ providers' = providers
       /\ \A c \in Callers :
             (call'[c].op = "Provider" /\ call'[c] # call[c])
                => /\ primary' = primary
                   /\ fallbacks' = fallbacks
                   /\ call'[c].att = <<>>
                   /\ call'[c].found = (call'[c].p \in DOMAIN providers)
                   /\ call'[c].found => call'[c].res.by = providers[call'[c].p]
                   /\ ~call'[c].found => call'[c].res = NoResult]_vars

\* C19 witness: the name asked for is registered and is neither the primary
\* nor among the fallbacks; the lookup found it.
C19_Witness ==
    \E c \in Callers :
        /\ call[c].op = "Provider"
        /\ call[c].found
        /\ call[c].p # primary
        /\ \A j \in 1..Len(fallbacks) : fallbacks[j] # call[c].p
\* The client's candidate order.
Order == <<primary>> \o fallbacks

\* What a batch call does when it runs alone against the client's ordering,
\* the k-th provider call it makes returning outs[k]: the attempts it makes
\* from position j on, after the attempts att, and the error it returns
\* ("pending" while it waits for a response outs does not hold).
RECURSIVE Alone(_, _, _)
Alone(j, att, outs) ==
    IF j > Len(fallbacks) THEN [att |-> att, err |-> ErrNoAvailableProvider]
    ELSE IF ~Lookup(Order[j + 1]) THEN Alone(j + 1, att, outs)
    ELSE IF Len(att) = Len(outs) THEN [att |-> att, err |-> "pending"]
    ELSE LET a == Attempt(j, Order[j + 1], providers[Order[j + 1]], outs[Len(att) + 1])
         IN  IF a.out = "ok" THEN [att |-> Append(att, a), err |-> "nil"]
             ELSE Alone(j + 1, Append(att, a), outs)

\* C20: with the ordering not being changed and two goroutines calling
\* Transcribe / Synthesize at once, in every interleaving each call's attempts
\* are those it makes alone against that ordering with the same provider
\* responses, and so are the error and the result it returns.
C20_CallsIndependent ==
    \A c \in Goroutines :
        LET rec == call[c]
            n == Len(rec.att)
            alone == Alone(0, <<>>, [k \in 1..n |-> rec.att[k].out])
        IN  rec.op \in BatchOps
            => /\ rec.att = alone.att
               /\ rec.pc = "done"
                    => /\ rec.err = alone.err
                       /\ rec.res = IF alone.err = "nil"
                                    THEN Result(rec.att[n].inst, c, n)
                                    ELSE NoResult

\* C20 witness: both goroutines are inside a call at the same time, each past
\* a failed attempt on the primary and about to try the fallback.
C20_Witness ==
    \A c \in Goroutines :
        /\ call[c].op \in BatchOps
        /\ call[c].pc = "loop"
        /\ call[c].att # <<>>
        /\ Lookup(call[c].fbs[call[c].i])
\* The positions of the ordering the call has read whose names resolve, in
\* order, from position j on.
RECURSIVE Filtered(_, _)
Filtered(rec, j) ==
    IF j > Len(rec.fbs) THEN <<>>
    ELSE (IF Lookup(CandName(rec, j)) THEN <<j>> ELSE <<>>) \o Filtered(rec, j + 1)

\* C21: the provider invocations of a Transcribe / Synthesize call are, in
\* order, the first registered candidates of [primary] ++ fallbacks as the
\* call read it; only the last of them can have succeeded, and then the call
\* has returned, with exactly that invocation's result and no error; a call
\* that returns a result returns the result of its last invocation.
C21_FirstSuccessWins ==
    \A c \in Callers :
        LET rec == call[c]
            n == Len(rec.att)
        IN  rec.op \in BatchOps
            => /\ n <= Len(Filtered(rec, 0))
               /\ \A k \in 1..n :
                    /\ rec.att[k].pos = Filtered(rec, 0)[k]
                    /\ rec.att[k].name = CandName(rec, rec.att[k].pos)
                    /\ rec.att[k].inst = providers[rec.att[k].name]
                    /\ rec.att[k].out = "ok"
                         => /\ k = n
                            /\ rec.pc = "done"
                            /\ rec.err = "nil"
                            /\ rec.res = Result(rec.att[k].inst, c, k)
               /\ rec.res # NoResult
                    => /\ n > 0
                       /\ rec.att[n].out = "ok"
                       /\ rec.res.by = rec.att[n].inst

\* C21 witness: the call returned the first fallback's result after the
\* primary failed; the second fallback, registered, was not invoked.
C21_Witness ==
    \E c \in Callers :
        /\ call[c].op \in BatchOps
        /\ call[c].pc = "done"
        /\ call[c].err = "nil"
        /\ Len(call[c].att) = 2
        /\ call[c].att[2].pos = 1
        /\ Len(call[c].fbs) = 2
        /\ Lookup(call[c].fbs[2])
        /\ call[c].fbs[2] # call[c].fbs[1]
\* The call's frame with the error values of its attempts forgotten.
Erased(rec) ==
    [rec EXCEPT !.att = [k \in 1..Len(rec.att) |->
                            [rec.att[k] EXCEPT !.out = IF @ = "ok" THEN "ok" ELSE "err"]]]

\* Where a batch call stands after its primary's provider returned an error.
AfterPrimaryFailed(op, rq) ==
    [IdleCall EXCEPT !.op = op, !.p = primary, !.req = rq, !.pc = "range",
                     !.att = <<Attempt(0, primary, providers[primary], "err")>>]

\* Where it stands after the provider of the fallback at hand returned an error.
AfterFallbackFailed(rec) ==
    LET nm == rec.fbs[rec.i]
        r == [rec EXCEPT !.att = Append(@, Attempt(rec.i, nm, providers[nm], "err"))]
    IN  IF rec.i < Len(rec.fbs) THEN [r EXCEPT !.i = rec.i + 1]
        ELSE [r EXCEPT !.pc = "done", !.res = NoResult, !.err = ErrNoAvailableProvider]

\* C22: whatever error value a provider returns to a Transcribe / Synthesize
\* call, the call goes on in the same way: error values apart, its frame
\* after the failed attempt is one function of its frame before it.
C22_ErrorKindIgnored ==
    [][\A c \in Callers :
          LET old == call[c]
              new == call'[c]
          IN  (/\ new.op \in BatchOps
               /\ new # old
               /\ \/ old.pc = "loop" /\ Len(new.att) = Len(old.att) + 1
                  \/ old.pc \in {"idle", "done"} /\ Len(new.att) = 1
               /\ LastAttempt(new).out # "ok")
              => /\ LastAttempt(new).out \in ProviderErrs
                 /\ Erased(new) = IF old.pc = "loop" THEN AfterFallbackFailed(Erased(old))
                                  ELSE AfterPrimaryFailed(new.op, new.req)]_vars

\* C22 witness: two candidates failed with two different error values, and
\* the call went on to a third, which served it.
C22_Witness ==
    \E c \in Callers :
        /\ call[c].op \in BatchOps
        /\ call[c].pc = "done"
        /\ Len(call[c].att) = 3
        /\ call[c].att[1].out = "ErrRateLimited"
        /\ call[c].att[2].out = "ErrQuotaExceeded"
        /\ call[c].att[3].out = "ok"
\* The error values of the call's failed attempts, in attempt order.
RECURSIVE FailuresOf(_)
FailuresOf(att) ==
    IF att = <<>> THEN <<>>
    ELSE FailuresOf(SubSeq(att, 1, Len(att) - 1)) \o
         (IF att[Len(att)].out = "ok" THEN <<>> ELSE <<att[Len(att)].out>>)

\* C23 as stated: after a Transcribe / Synthesize call, the diagnostic record
\* of the call holds the errors of its failed attempts, one each, in attempt
\* order.
C23_ErrorsRecorded ==
    \A c \in Callers :
        (call[c].op \in BatchOps /\ call[c].pc = "done")
           => Diagnostics(call[c]) = FailuresOf(call[c].att)
\* The provider names a call attempts, and the provider whose result it
\* returns (0: none; -1: it has not returned, a candidate is due), when it walks the candidates cands from index j on
\* after attempting names, the k-th provider call succeeding iff oks[k].
RECURSIVE Walk(_, _, _, _)
Walk(cands, j, names, oks) ==
    IF j > Len(cands) THEN [names |-> names, by |-> 0]
    ELSE IF ~Lookup(cands[j]) THEN Walk(cands, j + 1, names, oks)
    ELSE IF Len(names) >= Len(oks) THEN [names |-> names, by |-> -1]
    ELSE IF oks[Len(names) + 1]
         THEN [names |-> Append(names, cands[j]), by |-> providers[cands[j]]]
         ELSE Walk(cands, j + 1, Append(names, cands[j]), oks)

\* C24: the providers a Transcribe / Synthesize call has attempted, and the
\* one whose result it returned, are determined by the client's ordering, the
\* registry and which provider calls succeeded; the request's payload has no
\* part in it.
C24_PayloadBlind ==
    \A c \in Callers :
        LET rec == call[c]
            w == Walk(Order, 1, <<>>, [k \in 1..Len(rec.att) |-> rec.att[k].out = "ok"])
        IN  (rec.op \in BatchOps /\ rec.pc = "done")
            => /\ rec.req \in Requests
               /\ [k \in 1..Len(rec.att) |-> rec.att[k].name] = w.names
               /\ rec.res.by = w.by

\* C24 witness: a call with the second payload was served by a fallback.
C24_Witness ==
    \E c \in Callers :
        /\ call[c].op \in BatchOps
        /\ call[c].pc = "done"
        /\ call[c].req = 2
        /\ call[c].err = "nil"
        /\ Len(call[c].att) >= 2

\* The first position of the client's ordering whose name is registered with
\* a provider implementing StreamingProvider (0 when there is none).
FirstStreaming ==
    LET js == {j \in 1..Len(Order) : /\ Lookup(Order[j])
                                      /\ IsStreamingProvider(providers[Order[j]])}
    IN  IF js = {} THEN 0 ELSE CHOOSE j \in js : \A k \in js : j <= k

\* C25: a TranscribeStream call invokes at most one provider, the first
\* registered candidate of [primary] ++ fallbacks that implements
\* StreamingProvider, and returns what that one returned unchanged (its
\* stream and no error, or no stream and its error); the call returns
\* ErrStreamingNotSupported of its own only when it invoked no provider.
C25_StreamSingleDispatch ==
    \A c \in Callers :
        LET rec == call[c]
        IN  rec.op = "TranscribeStream"
            => /\ Len(rec.att) <= 1
               /\ rec.att # <<>>
                   => /\ rec.pc = "done"
                      /\ FirstStreaming # 0
                      /\ rec.att[1].pos = FirstStreaming - 1
                      /\ rec.att[1].name = Order[FirstStreaming]
                      /\ rec.att[1].inst = providers[Order[FirstStreaming]]
                      /\ rec.att[1].out = "ok"
                          => /\ rec.err = "nil"
                             /\ rec.res = Result(rec.att[1].inst, c, 1)
                             /\ rec.stream # "none"
                      /\ rec.att[1].out # "ok"
                          => /\ rec.err = rec.att[1].out
                             /\ rec.err \in ProviderErrs
                             /\ rec.res = NoResult
                             /\ rec.stream = "none"
               /\ (rec.pc = "done" /\ rec.att = <<>>)
                   => /\ rec.err = ErrStreamingNotSupported
                      /\ FirstStreaming = 0
               /\ (rec.pc = "done" /\ rec.err = ErrStreamingNotSupported)
                   => rec.att = <<>>

\* C25 witness: the primary is registered but cannot stream, the call skipped
\* it, invoked a fallback that can, and returned that provider's error.
C25_Witness ==
    \E c \in Callers :
        /\ call[c].op = "TranscribeStream"
        /\ call[c].pc = "done"
        /\ Lookup(primary)
        /\ Len(call[c].att) = 1
        /\ call[c].att[1].pos >= 1
        /\ call[c].err \in ProviderErrs

\* What a caller can tell of a batch call: the names attempted, in order, and
\* how the call ended (by: the provider whose result came back, 0 for none).
Observed(rec) ==
    [names |-> [k \in 1..Len(rec.att) |-> rec.att[k].name],
     by    |-> rec.res.by,
     err   |-> rec.err]

\* The same of the one fallback machine, which knows neither the modality nor
\* the operation: it walks the ordering the setters left with the given
\* success/failure pattern.
Machine(oks) ==
    LET w == Walk(Order, 1, <<>>, oks)
    IN  [names |-> w.names,
         by    |-> w.by,
         err   |-> IF w.by = 0 THEN ErrNoAvailableProvider ELSE "nil"]

\* C26: after the same construction and the same SetPrimary / SetFallbacks
\* calls, and with the same success/failure pattern of the providers, a
\* Transcribe of the stt client and a Synthesize of the tts client attempt the
\* same names in the same order, and both end with the result of the same
\* provider or both with ErrNoAvailableProvider: each does what the one
\* machine does, and while in flight has attempted what that machine has.
C26_SameMachine ==
    \A c \in Callers :
        LET rec == call[c]
            oks == [k \in 1..Len(rec.att) |-> rec.att[k].out = "ok"]
        IN  /\ (modality = "stt" /\ rec.op = "Transcribe" /\ rec.pc = "done")
                => Observed(rec) = Machine(oks)
            /\ (modality = "tts" /\ rec.op = "Synthesize" /\ rec.pc = "done")
                => Observed(rec) = Machine(oks)
            /\ (rec.op \in BatchOps /\ rec.pc # "done")
                => /\ Observed(rec).names = Machine(oks).names
                   /\ Machine(oks).by \in {0, -1}
            /\ rec.op = "Transcribe" => modality = "stt"
            /\ rec.op = "Synthesize" => modality = "tts"

\* C26 witness: the tts client, its fallbacks set after construction, ended a
\* Synthesize with ErrNoAvailableProvider after the primary and two fallbacks
\* failed.
C26_Witness ==
    \E c \in Callers :
        /\ modality = "tts"
        /\ call[c].op = "Synthesize"
        /\ call[c].pc = "done"
        /\ call[c].err = ErrNoAvailableProvider
        /\ Len(call[c].att) = 3

\* C27: a SetPrimary(name) step makes name the primary and changes neither
\* the fallback list nor the registry; a SetFallbacks(names...) step makes
\* names the fallback list, the empty one included, and changes neither the
\* primary nor the registry; each does so for every name, registered or not,
\* and a step that repeats the arguments stored changes nothing.
C27_SetterFrame ==
    [][ /\ \A name \in NameUniverse :
             SetPrimary(name)
             => /\ primary' = name
                /\ fallbacks' = fallbacks
                /\ providers' = providers
                /\ primary = name => vars' = vars
        /\ \A names \in SeqsUpTo(FallbackNames, MaxFallbacks) :
             SetFallbacks(names)
             => /\ fallbacks' = names
                /\ primary' = primary
                /\ providers' = providers
                /\ fallbacks = names => vars' = vars
        /\ (primary' # primary \/ fallbacks' # fallbacks)
             => \/ \E name \in NameUniverse : SetPrimary(name)
                \/ \E names \in SeqsUpTo(FallbackNames, MaxFallbacks) : SetFallbacks(names)
      ]_vars

\* C27 witness: the setters have stored a primary that is not registered
\* and is also among the fallbacks, next to a name that is registered.
C27_Witness ==
    /\ primary # ""
    /\ ~Lookup(primary)
    /\ \E j \in 1..Len(fallbacks) : fallbacks[j] = primary
    /\ \E j \in 1..Len(fallbacks) : Lookup(fallbacks[j])

\* The call is between two statements of an execute operation.
InFlight(rec) == rec.op \in BatchOps \cup StreamOps /\ rec.pc \in {"range", "loop"}

\* C28: every provider call returning, a call of Transcribe, Synthesize,
\* SynthesizeStream or TranscribeStream in flight returns; it makes at most
\* 1 + len(fallbacks) provider calls, fallbacks being the list it read; the
\* positions it attempts strictly increase, all of them lie before the
\* loop's position, and the loop's position only moves forward by one.
C28_Terminates ==
    /\ [](\A c \in Callers :
            LET rec == call[c]
            IN  rec.op \in BatchOps \cup StreamOps
                => /\ Len(rec.att) <= 1 + Len(rec.fbs)
                   /\ \A k \in 1..Len(rec.att) :
                         /\ rec.att[k].pos \in Positions(rec)
                         /\ k > 1 => rec.att[k - 1].pos < rec.att[k].pos
                         /\ rec.pc = "loop" => rec.att[k].pos < rec.i
                   /\ rec.pc = "loop" => rec.i \in 1..Len(rec.fbs))
    /\ [][\A c \in Callers :
            (InFlight(call[c]) /\ call'[c] # call[c])
            => /\ call'[c].op = call[c].op
               /\ call'[c].pc \in {"loop", "done"}
               /\ call'[c].pc = "loop"
                   => call'[c].i = (IF call[c].pc = "range" THEN 1 ELSE call[c].i + 1)
               /\ Len(call'[c].att) \in {Len(call[c].att), Len(call[c].att) + 1}]_vars
    /\ \A c \in Callers : InFlight(call[c]) ~> (call[c].pc = "done")

\* C28 witness: a call has returned after one provider call at each of the
\* 1 + len(fallbacks) positions, the last of them at the end of a list of two.
C28_Witness ==
    \E c \in Callers :
        /\ call[c].op \in BatchOps \cup StreamOps
        /\ call[c].pc = "done"
        /\ Len(call[c].fbs) = 2
        /\ Len(call[c].att) = 1 + Len(call[c].fbs)
        /\ LastAttempt(call[c]).pos = Len(call[c].fbs)

\* C29 as stated: the list a call ranges over is one list the client held,
\* the stored one or the one a SetFallbacks is storing at that moment, never
\* a shortened, extended or mixed one; the read does not fault; and from then
\* to its return the call's list does not change, whatever is stored
\* meanwhile.
C29_WholeFallbackList ==
    [][\A c \in Callers :
          /\ (call[c].pc = "range" /\ call'[c].pc # "range")
              => /\ call'[c].pc # "fault"
                 /\ call'[c].fbs \in {fallbacks, fallbacks'}
          /\ (call[c].pc = "loop" /\ call'[c].pc \in {"loop", "done"})
              => call'[c].fbs = call[c].fbs]_vars
====
